---- MODULE Spec2Model ----
(***************************************************************************)
(* A model of the godmode-agent signal engine.                             *)
(*                                                                         *)
(*   strategy.py  TradeSetup, identify_directional_bias,                   *)
(*                detect_market_structure_shift, detect_poi_and_liquidity, *)
(*                confirm_entry, confidence_score, generate_trade          *)
(*   agent.py     compute_trend, compute_lot_table                         *)
(*                                                                         *)
(* The functions are pure: specification Spec calls each of them once on   *)
(* inputs drawn from bounded sets and records the call and its outcome.    *)
(*                                                                         *)
(* Numbers.  Python floats are modelled by exact fixed-point integers.     *)
(* A price is an integer count of half ticks, one tick being 0.00001, the  *)
(* grid round(tp, 5) rounds to; candle prices are whole ticks (even        *)
(* counts).  sl_pips is a whole number.  A lot size is an integer count of *)
(* the last digit round() keeps (0.001 lot in calculate_lot_size, 0.0001   *)
(* lot in compute_lot_table).  round() rounds to the nearest multiple; on  *)
(* an exact tie the binary representation of the float decides (the code   *)
(* gives round(0.5 / 40, 3) = 0.013 and round(0.285 / 0.01) = 29), so a    *)
(* tie is resolved by a tie rule the call draws from TieRules.             *)
(*                                                                         *)
(* An outcome is [kind |-> "value", value |-> v] for a returned value,     *)
(* [kind |-> "none"] for a returned None and [kind |-> "raise", exc |-> e] *)
(* for an exception that leaves the function.                              *)
(*                                                                         *)
(* The position lifecycle monitor of spec section 4.9 is modelled from its *)
(* transition table; specification MonitorSpec feeds one position, opened  *)
(* on a trade TradeSetup assembles, a stream of price observations.        *)
(***************************************************************************)
EXTENDS Integers, Sequences, FiniteSets, TLC

VARIABLES
    fn,      \* the function the harness called ("idle" before the call)
    args,    \* the arguments of that call
    ret,     \* its outcome
    signal,  \* the TradeSignal of the monitored position
    pos,     \* its PositionState
    events,  \* every lifecycle event emitted so far, oldest first
    obs      \* the latest price observation and what it did

harness == <<fn, args, ret>>
monitor == <<signal, pos, events, obs>>
vars == <<fn, args, ret, signal, pos, events, obs>>

----------------------------------------------------------------------------
(* Bounds of the input sets *)

MaxPrice == 3       \* candle prices are 1..MaxPrice ticks
MaxLen == 3         \* higher-timeframe series hold 0..MaxLen candles
MaxLtf == 1         \* lower-timeframe series hold 0..MaxLtf candles
MaxSlPips == 1      \* generate_trade: sl_pips ranges over -1..MaxSlPips
MaxLotSlPips == 4   \* calculate_lot_size: sl_pips ranges over -2..MaxLotSlPips
MaxSlDistance == 8  \* compute_lot_table: sl_distance is -2..MaxSlDistance half pips
MaxTrendLen == 5    \* compute_trend: series hold 0..MaxTrendLen candles
MaxSnapPrice == 2   \* strategy_snapshot and main: prices are 0..MaxSnapPrice

----------------------------------------------------------------------------
(* Outcomes *)

Value(v) == [kind |-> "value", value |-> v]
NoneValue == [kind |-> "none"]
Raise(e) == [kind |-> "raise", exc |-> e]

Last(s) == s[Len(s)]

----------------------------------------------------------------------------
(* Numbers *)

\* a price of k ticks, and the number 1.0, in half ticks
Tick(k) == 2 * k
OneH == 2 * 100000

\* how a call's floats resolve an exact tie: to the lower or the upper
\* neighbour, or to the even or the odd one
TieRules == {"down", "up", "even", "odd"}

\* n / d (d > 0) rounded to the nearest integer
RoundPos(n, d, tie) ==
    LET q == n \div d
        r == n % d
    IN  IF 2 * r < d THEN q
        ELSE IF 2 * r > d THEN q + 1
        ELSE CASE tie = "down" -> q
               [] tie = "up" -> q + 1
               [] tie = "even" -> IF q % 2 = 0 THEN q ELSE q + 1
               [] OTHER -> IF q % 2 = 0 THEN q + 1 ELSE q

\* round(n / d) for d # 0
Round(n, d, tie) ==
    IF d > 0 THEN RoundPos(n, d, tie) ELSE RoundPos(-n, -d, tie)

\* round(x, 5) of a price x in half ticks
Round5(x, tie) == 2 * Round(x, 2, tie)

----------------------------------------------------------------------------
(* strategy.py: TradeSetup *)

\* str.lower() on the direction strings in use
Lower(s) ==
    CASE s = "BUY" -> "buy"
      [] s = "SELL" -> "sell"
      [] OTHER -> s

\* "XAU" in symbol.upper()
IsXau(symbol) == symbol \in {"XAU/USD", "xauusd", "XAUUSD"}

rr_ratios == <<3, 6, 10>>

calculate_tps(direction, entry, sl_pips, rr, tie) ==
    [i \in 1..Len(rr) |->
        IF Lower(direction) = "buy"
        THEN Round5(entry + sl_pips * OneH * rr[i], tie)
        ELSE Round5(entry - sl_pips * OneH * rr[i], tie)]

\* risk percentages in hundredths of a percent (5, 2, 1.25, 0.5)
account_risk_percent ==
    [personal_10 |-> 500, phase1 |-> 200, phase2 |-> 125, funded |-> 50]

balances ==
    [personal_10 |-> 10, phase1 |-> 5000, phase2 |-> 5000, funded |-> 50000]

get_account_balance(account_type) ==
    IF account_type \in DOMAIN balances THEN balances[account_type] ELSE 5000

pip_value_usd(symbol) == IF IsXau(symbol) THEN 1 ELSE 10

\* round(risk_usd / (sl_pips * pip_value_usd), 3) in units of 0.001 lot, where
\* risk_usd = pct / 100 * balance and pct100 = 100 * pct; sl_pips * pip # 0
\* the risk multiplied by the stop distance instead of divided by it
lot_size_times(pct100, balance, sl_pips, pip, tie) ==
    Round(pct100 * balance * sl_pips * pip, 10, tie)

lot_size_of(pct100, balance, sl_pips, pip, tie) ==
    Round(pct100 * balance, 10 * sl_pips * pip, tie)

calculate_lot_size(symbol, account_type, sl_pips, tie) ==
    IF account_type \notin DOMAIN account_risk_percent THEN Raise("KeyError")
    ELSE IF sl_pips * pip_value_usd(symbol) = 0 THEN Raise("ZeroDivisionError")
    ELSE Value(lot_size_of(account_risk_percent[account_type],
                           get_account_balance(account_type),
                           sl_pips, pip_value_usd(symbol), tie))

\* TradeSetup.__init__: the object, or the exception of calculate_lot_size
TradeSetup(symbol, direction, entry, sl, rr, confidence, account_type, sl_pips, tie) ==
    LET lot == calculate_lot_size(symbol, account_type, sl_pips, tie)
    IN  IF lot.kind = "raise" THEN lot
        ELSE Value([symbol |-> symbol, direction |-> direction, entry |-> entry,
                    sl |-> sl, rr_ratios |-> rr, confidence |-> confidence,
                    account_type |-> account_type, sl_pips |-> sl_pips,
                    tp_levels |-> calculate_tps(direction, entry, sl_pips, rr, tie),
                    lot_size |-> lot.value])

----------------------------------------------------------------------------
(* strategy.py: the A+ setup functions.  A candle is a dict of prices: a   *)
(* function on {"high", "low", "close"} with or without "open".            *)

identify_directional_bias(htf_candles) ==
    IF Len(htf_candles) < 2 THEN Raise("IndexError")
    ELSE LET n == Len(htf_candles)
             hi1 == htf_candles[n].high
             hi2 == htf_candles[n - 1].high
             lo1 == htf_candles[n].low
             lo2 == htf_candles[n - 1].low
         IN  IF hi1 > hi2 /\ lo1 > lo2 THEN Value("buy")
             ELSE IF hi1 < hi2 /\ lo1 < lo2 THEN Value("sell")
             ELSE NoneValue

detect_market_structure_shift(htf_candles) ==
    IF Len(htf_candles) < 3 THEN NoneValue
    ELSE LET n == Len(htf_candles)
         IN  IF htf_candles[n].high > htf_candles[n - 1].high
             THEN Value("bullish_bos")
             ELSE IF htf_candles[n].low < htf_candles[n - 1].low
             THEN Value("bearish_bos")
             ELSE NoneValue

\* the (ob_list, fvg_list, liquidity) triple, or KeyError when prev has no "open"
detect_poi_and_liquidity(htf_candles) ==
    IF Len(htf_candles) >= 3
    THEN LET n == Len(htf_candles)
             prev == htf_candles[n - 1]
             prev2 == htf_candles[n - 2]
             zone(t) == [top |-> prev.high, bottom |-> prev.low, type |-> t]
         IN  IF "open" \notin DOMAIN prev THEN Raise("KeyError")
             ELSE Value([ob_list |-> <<zone("OB")>>,
                         fvg_list |-> IF prev2.close < prev.open
                                      THEN <<zone("FVG")>> ELSE <<>>,
                         liquidity |-> <<prev.high, prev.low>>])
    ELSE Value([ob_list |-> <<>>, fvg_list |-> <<>>, liquidity |-> <<>>])

confirm_entry(ltf_candles, poi, directional_bias) ==
    IF Len(ltf_candles) = 0 THEN Raise("IndexError")
    ELSE LET last_candle == Last(ltf_candles)
         IN  IF directional_bias = "buy" /\ last_candle.low <= poi.bottom
             THEN Value(TRUE)
             ELSE IF directional_bias = "sell" /\ last_candle.high >= poi.top
             THEN Value(TRUE)
             ELSE Value(FALSE)

\* the weights, the cap and the tier thresholds
W_SHIFT == 40
W_POI == 30
W_CONFIRM == 30
SCORE_CAP == 100
THRESHOLD_STANDARD == 85
THRESHOLD_PERSONAL == 95

Min(a, b) == IF a < b THEN a ELSE b
Max(a, b) == IF a > b THEN a ELSE b

\* the confirmation weight subtracted instead of added
confidence_score_minus(structure_shift, poi, confirmation) ==
    Min((IF structure_shift THEN W_SHIFT ELSE 0)
        + (IF poi THEN W_POI ELSE 0)
        - (IF confirmation THEN W_CONFIRM ELSE 0), SCORE_CAP)

\* the arguments are the truth values Python gives structure_shift, poi, confirmation
confidence_score(structure_shift, poi, confirmation) ==
    Min((IF structure_shift THEN W_SHIFT ELSE 0)
        + (IF poi THEN W_POI ELSE 0)
        + (IF confirmation THEN W_CONFIRM ELSE 0), SCORE_CAP)

\* a fair-value gap preferred to an order block
select_poi_fvg_first(ob_list, fvg_list) ==
    IF Len(fvg_list) > 0 THEN Value(Last(fvg_list))
    ELSE IF Len(ob_list) > 0 THEN Value(Last(ob_list)) ELSE NoneValue

\* poi = ob_list[-1] if ob_list else None
select_poi(ob_list, fvg_list) ==
    IF Len(ob_list) > 0 THEN Value(Last(ob_list)) ELSE NoneValue

below_threshold(confidence, account_type) ==
    \/ confidence < THRESHOLD_STANDARD /\ account_type # "personal_10"
    \/ confidence < THRESHOLD_PERSONAL /\ account_type = "personal_10"

generate_trade(symbol, htf_candles, ltf_candles, account_type, sl_pips, tie) ==
    LET db == identify_directional_bias(htf_candles)
    IN  IF db.kind = "raise" THEN db
        ELSE IF db.kind = "none" THEN NoneValue
        ELSE
        LET mss == detect_market_structure_shift(htf_candles)
            det == detect_poi_and_liquidity(htf_candles)
        IN  IF det.kind = "raise" THEN det
            ELSE
            LET poi == select_poi(det.value.ob_list, det.value.fvg_list)
            IN  IF poi.kind = "none" THEN NoneValue
                ELSE
                LET confirm == confirm_entry(ltf_candles, poi.value, db.value)
                IN  IF confirm.kind = "raise" THEN confirm
                    ELSE
                    LET confidence ==
                            confidence_score(mss.kind = "value", TRUE, confirm.value)
                    IN  IF below_threshold(confidence, account_type) THEN NoneValue
                        ELSE TradeSetup(
                                symbol, db.value,
                                (poi.value.top + poi.value.bottom) \div 2,
                                IF db.value = "buy" THEN poi.value.bottom
                                                    ELSE poi.value.top,
                                rr_ratios, confidence, account_type, sl_pips, tie)

----------------------------------------------------------------------------
(* agent.py.  A raw candle is the provider's dict of strings; float() of a *)
(* numeral is the number it writes, of any other string a ValueError.      *)

Numerals == {ToString(k) : k \in 0..MaxPrice}

float(s) ==
    IF s \in Numerals
    THEN Value(CHOOSE k \in 0..MaxPrice : ToString(k) = s)
    ELSE Raise("ValueError")

RawKeys == {"datetime", "open", "high", "low", "close"}

\* the parsed candle, or the first exception of the dict literal
parse_candle(c) ==
    IF ~(RawKeys \subseteq DOMAIN c) THEN Raise("KeyError")
    ELSE IF \E k \in {"open", "high", "low", "close"} : float(c[k]).kind = "raise"
    THEN Raise("ValueError")
    ELSE IF "volume" \in DOMAIN c /\ float(c.volume).kind = "raise"
    THEN Raise("ValueError")
    ELSE Value([datetime |-> c.datetime,
                open |-> float(c.open).value, high |-> float(c.high).value,
                low |-> float(c.low).value, close |-> float(c.close).value,
                volume |-> IF "volume" \in DOMAIN c THEN float(c.volume).value
                                                    ELSE 0])

TREND_MIN_LEN == 5

\* the trend as the fraction num / den (0 is 0 / 1)
compute_trend(candles) ==
    IF Len(candles) < TREND_MIN_LEN THEN Value([num |-> 0, den |-> 1])
    ELSE LET p0 == parse_candle(candles[1])
             pN == parse_candle(Last(candles))
         IN  IF p0.kind = "raise" THEN p0
             ELSE IF pN.kind = "raise" THEN pN
             ELSE IF pN.value.close = 0 THEN Raise("ZeroDivisionError")
             ELSE Value([num |-> p0.value.close - pN.value.close,
                         den |-> pN.value.close])

accounts == {5000, 10000, 25000, 50000, 100000, 200000}

\* (lowpct, highpct) in units of 0.0001
phases ==
    [Phase1 |-> <<150, 200>>, Phase2 |-> <<100, 125>>, Funded |-> <<25, 75>>]

\* sl_pips = max(1, int(round(sl_distance / 0.01))), sl_distance in units of 0.005
lot_table_sl_pips(sl_distance, tie) == Max(1, Round(sl_distance, 2, tie))

\* the table; risks in units of 0.0001 USD, lots in units of 0.0001 lot
compute_lot_table(sl_distance, instrument, tie) ==
    LET sl_pips == lot_table_sl_pips(sl_distance, tie)
    IN  [bal \in accounts |->
            [p \in DOMAIN phases |->
                [risk_usd_min |-> bal * phases[p][1],
                 risk_usd_max |-> bal * phases[p][2],
                 lot_min |-> Round(bal * phases[p][1], sl_pips, tie),
                 lot_max |-> Round(bal * phases[p][2], sl_pips, tie)]]]

----------------------------------------------------------------------------
(* agent.py: strategy_snapshot.  Candle prices are whole numbers; the      *)
(* signal's prices are in units of 0.001, where every value the code       *)
(* rounds lies within float error of a whole 0.01, never on a tie.         *)

SL_OFFSET == 50          \* 0.05
CONFIDENCE_EST == 85
tp_risks == <<5, 7, 10>>

SetMax(S) == CHOOSE x \in S : \A y \in S : y <= x
SetMin(S) == CHOOSE x \in S : \A y \in S : x <= y

\* [parse_candle(c) for c in cs]: the parsed list, or the first exception
parse_all(cs) ==
    LET bad == {i \in 1..Len(cs) : parse_candle(cs[i]).kind = "raise"}
    IN  IF bad # {} THEN parse_candle(cs[SetMin(bad)])
        ELSE Value([i \in 1..Len(cs) |-> parse_candle(cs[i]).value])

\* round(x, 2) of x in units of 0.001
Round2(x) == 10 * Round(x, 10, "even")

\* the sign tests on a trend num / den
trend_positive(t) == t.num * t.den > 0
trend_negative(t) == t.num * t.den < 0

\* the conditions on the parsed values and the signal built on them
snapshot_signal(m15_vals, h4_high, h4_low, h4_trend, daily_trend) ==
    LET latest_m15 == m15_vals[1]
        recent == {m15_vals[i] : i \in 2..Min(5, Len(m15_vals))}
        recent_high == SetMax({c.high : c \in recent})
        recent_low == SetMin({c.low : c \in recent})
        htf_up == trend_positive(daily_trend) /\ trend_positive(h4_trend)
        htf_down == trend_negative(daily_trend) /\ trend_negative(h4_trend)
        buy == /\ latest_m15.close > recent_high
               /\ htf_up
               /\ 1000 * latest_m15.close < 1002 * h4_high
        sell == /\ latest_m15.close < recent_low
                /\ htf_down
                /\ 1000 * latest_m15.close > 998 * h4_low
        entry == 1000 * latest_m15.close
        sl == IF buy THEN 1000 * recent_low - SL_OFFSET
                     ELSE 1000 * recent_high + SL_OFFSET
        risk == IF entry >= sl THEN entry - sl ELSE sl - entry
        tp(k) == IF buy THEN entry + risk * tp_risks[k]
                        ELSE entry - risk * tp_risks[k]
    IN  IF buy \/ sell
        THEN Value([instrument |-> "XAU/USD",
                    direction |-> IF buy THEN "BUY" ELSE "SELL",
                    entry |-> Round2(entry),
                    stop |-> Round2(sl),
                    tps |-> <<Round2(tp(1)), Round2(tp(2)), Round2(tp(3))>>,
                    confidence_est |-> CONFIDENCE_EST])
        ELSE NoneValue

\* h4 as main passes it (one parsed candle) and as a list of raw candles; the
\* field of the other kind is a filler the code never sees
H4Dict(c) == [kind |-> "dict", dict |-> c, list |-> <<>>]
H4List(q) ==
    [kind |-> "list",
     dict |-> [datetime |-> "t", open |-> 0, high |-> 0, low |-> 0, close |-> 0,
               volume |-> 0],
     list |-> q]

\* h4 is a parsed candle (kind "dict", field dict) or a list of raw candles
\* (kind "list", field list); the other series are raw
\* candles, newest first.  parse_candle of a parsed candle is that candle,
\* so the daily trend is the trend of the raw series.
strategy_snapshot(m15, h1, h4, daily) ==
    LET is_list == h4.kind = "list"
        m15_vals == parse_all(m15)
        h1_vals == parse_all(h1)
        h4_vals == IF is_list THEN parse_all(h4.list) ELSE Value(h4.dict)
        daily_vals == parse_all(daily)
        h4_trend == IF is_list THEN compute_trend(h4.list)
                               ELSE Value([num |-> 0, den |-> 1])
        daily_trend == compute_trend(daily)
    IN  IF m15_vals.kind = "raise" THEN m15_vals
        ELSE IF h1_vals.kind = "raise" THEN h1_vals
        ELSE IF h4_vals.kind = "raise" THEN h4_vals
        ELSE IF daily_vals.kind = "raise" THEN daily_vals
        ELSE IF h4_trend.kind = "raise" THEN h4_trend
        ELSE IF daily_trend.kind = "raise" THEN daily_trend
        ELSE IF Len(m15) = 0 THEN Raise("IndexError")
        ELSE IF Len(m15) = 1 THEN Raise("ValueError")
        ELSE IF is_list /\ Len(h4.list) = 0 THEN Raise("IndexError")
        ELSE LET top == IF is_list THEN h4_vals.value[1] ELSE h4_vals.value
             IN  snapshot_signal(m15_vals.value, top.high, top.low,
                                 h4_trend.value, daily_trend.value)

----------------------------------------------------------------------------
(* agent.py: main.  A response of the data provider either carries a       *)
(* "values" list of raw candles, newest first, or does not.                *)

H4_BLOCK == 4
H1_AGG_LIMIT == 40
ACCEPT_MIN == 85

Response(q) == [has_values |-> TRUE, values |-> q]
NoValues == [has_values |-> FALSE, values |-> <<>>]

\* one 4h candle of the h1 candles block[1..n], or the first exception
aggregate_block(block) ==
    LET n == Len(block)
        o == float(block[n].open)
        c == float(block[1].close)
        badh == {i \in 1..n : float(block[i].high).kind = "raise"}
        badl == {i \in 1..n : float(block[i].low).kind = "raise"}
    IN  IF o.kind = "raise" THEN o
        ELSE IF c.kind = "raise" THEN c
        ELSE IF badh # {} THEN Raise("ValueError")
        ELSE IF badl # {} THEN Raise("ValueError")
        ELSE Value([datetime |-> block[n].datetime, open |-> o.value,
                    high |-> SetMax({float(block[i].high).value : i \in 1..n}),
                    low |-> SetMin({float(block[i].low).value : i \in 1..n}),
                    close |-> c.value, volume |-> 0])

\* h1 grouped by four into 4h candles
aggregate_h4(h1_vals) ==
    LET len == Min(Len(h1_vals), H1_AGG_LIMIT)
        nblocks == (len + H4_BLOCK - 1) \div H4_BLOCK
        block(k) ==
            SubSeq(h1_vals, H4_BLOCK * (k - 1) + 1, Min(H4_BLOCK * k, Len(h1_vals)))
        bad == {k \in 1..nblocks : aggregate_block(block(k)).kind = "raise"}
    IN  IF bad # {} THEN aggregate_block(block(SetMin(bad)))
        ELSE Value([k \in 1..nblocks |-> aggregate_block(block(k)).value])

\* hf_check: without a key the signal's own estimate; with one, the reply
hf_check(sg, hf) ==
    IF ~hf.key THEN [ok |-> TRUE, confidence |-> sg.confidence_est]
    ELSE [ok |-> hf.ok, confidence |-> hf.confidence]

\* how main ends, what strategy_snapshot gave it, and its calls of
\* send_telegram and append_log in order
Ended(how, sg, calls) == [kind |-> how, signal |-> sg, calls |-> calls]

\* main from the signal on; compute_lot_table cannot raise and its table only
\* goes into the two calls
main_accept(sg, hf) ==
    LET hf_result == hf_check(sg.value, hf)
        final_ok == hf_result.ok /\ hf_result.confidence >= ACCEPT_MIN
    IN  IF final_ok THEN Ended("none", sg, <<"send_telegram", "append_log">>)
        ELSE Ended("none", sg, <<>>)

main(twelve_key, feed, hf) ==
    IF ~twelve_key THEN Ended("exit", NoneValue, <<>>)
    ELSE IF ~feed.fetched THEN Ended("exit", NoneValue, <<>>)
    ELSE IF ~feed.m15.has_values \/ ~feed.h1.has_values
                \/ ~feed.daily.has_values
    THEN Ended("exit", NoneValue, <<>>)
    ELSE LET h4 == IF feed.h4_raw.has_values
                   THEN parse_all(feed.h4_raw.values)
                   ELSE aggregate_h4(feed.h1.values)
         IN  IF h4.kind = "raise" THEN Ended("raise", h4, <<>>)
             ELSE LET sg == strategy_snapshot(
                                feed.m15.values, feed.h1.values,
                                IF Len(h4.value) > 0 THEN H4Dict(h4.value[1])
                                                     ELSE H4List(<<>>),
                                feed.daily.values)
                  IN  IF sg.kind = "raise" THEN Ended("raise", sg, <<>>)
                      ELSE IF sg.kind = "none" THEN Ended("none", sg, <<>>)
                      ELSE main_accept(sg, hf)

----------------------------------------------------------------------------
(* The input sets *)

Prices == {Tick(k) : k \in 1..MaxPrice}

\* (low, high) pairs at most one tick apart, and all of them
NarrowRanges ==
    {x \in Prices \X Prices : x[1] <= x[2] /\ x[2] <= x[1] + Tick(1)}
Ranges == {x \in Prices \X Prices : x[1] <= x[2]}

\* candles as parse_candle shapes them (with "open") and as
\* fetch_live_candles shapes them (without)
ParsedCandles ==
    {[high |-> x[2], low |-> x[1], open |-> x[1], close |-> x[2]] :
        x \in NarrowRanges}
LiveCandles ==
    {[high |-> x[2], low |-> x[1], close |-> x[2]] : x \in NarrowRanges}

\* lower-timeframe candles: any range, any close in it
LtfCandles ==
    {[high |-> x[2], low |-> x[1], close |-> c] :
        <<x, c>> \in {y \in Ranges \X Prices : y[1][1] <= y[2] /\ y[2] <= y[1][2]}}

SeqsUpTo(S, n) == UNION {[1..k -> S] : k \in 0..n}

HtfSeries == SeqsUpTo(ParsedCandles, MaxLen) \cup SeqsUpTo(LiveCandles, MaxLen)

\* for generate_trade: no candle, or one with low = high = close
FlatLtfSeries == SeqsUpTo({c \in LtfCandles : c.low = c.high}, 1)
LtfSeries == SeqsUpTo(LtfCandles, MaxLtf)

Pois == {[top |-> x[2], bottom |-> x[1], type |-> "OB"] : x \in Ranges}

Symbols == {"XAU/USD", "EURUSD"}
KnownAccountTypes == DOMAIN account_risk_percent
AccountTypes == KnownAccountTypes \cup {"standard"}
SlPipsInputs == (-1)..MaxSlPips
LotSlPipsInputs == (-2)..MaxLotSlPips
SlDistances == (-2)..MaxSlDistance

\* raw candles: a numeral close, or a close that is no number
RawCandle(close) ==
    [datetime |-> "t", open |-> close, high |-> close, low |-> close,
     close |-> close]
RawCandles ==
    {RawCandle(ToString(k)) : k \in 1..MaxPrice}
        \cup {[datetime |-> "t", open |-> "1", high |-> "1", low |-> "1",
                close |-> "n/a"]}
RawSeries == SeqsUpTo(RawCandles, MaxTrendLen)

\* strategy_snapshot: raw candles over the prices 0..MaxSnapPrice
SnapPrices == 0..MaxSnapPrice
RawOHLC(low, high, close) ==
    [datetime |-> "t", open |-> ToString(close), high |-> ToString(high),
     low |-> ToString(low), close |-> ToString(close)]
UnparsableCandle ==
    [datetime |-> "t", open |-> "1", high |-> "1", low |-> "1", close |-> "n/a"]

\* the candles before the latest M15 candle: any low and high, a high below
\* the low included (parse_candle accepts it)
RecentCandles == {RawOHLC(l, h, h) : l \in SnapPrices, h \in SnapPrices}
WellFormedRecent ==
    {RawOHLC(x[1], x[2], x[2]) :
        x \in {y \in SnapPrices \X SnapPrices : y[1] <= y[2]}}
RecentLists ==
    SeqsUpTo(RecentCandles, 1) \cup {<<c, c, c, c>> : c \in WellFormedRecent}
M15Series ==
    {<<>>, <<UnparsableCandle>>}
        \cup {<<RawOHLC(c, c, c)>> \o recent :
                c \in SnapPrices, recent \in RecentLists}

\* n flat candles, newest first: the newest closes at c0, the others at cN
Series(c0, cN, n) ==
    [i \in 1..n |-> IF i = 1 THEN RawOHLC(c0, c0, c0) ELSE RawOHLC(cN, cN, cN)]
TrendSeries ==
    {Series(c0, cN, n) :
        c0 \in SnapPrices, cN \in SnapPrices, n \in {0, 1, TREND_MIN_LEN}}

H1Series == {<<>>, <<UnparsableCandle>>}
H4Inputs ==
    {H4Dict(parse_candle(RawOHLC(c, c, c)).value) : c \in SnapPrices}
        \cup {H4List(q) : q \in TrendSeries}

\* main: the four responses, or a fetch that failed (without TWELVE_KEY none
\* is made); the configured keys; the reply of the secondary check when its
\* key is set
MainPrices == 1..MaxSnapPrice
MainSeries ==
    {Series(c0, cN, n) :
        c0 \in MainPrices, cN \in MainPrices, n \in {0, 1, TREND_MIN_LEN}}
Responses == {NoValues} \cup {Response(q) : q \in MainSeries}
H1Responses ==
    {NoValues, Response(<<>>), Response(<<UnparsableCandle>>)}
        \cup {Response(Series(c, c, TREND_MIN_LEN)) : c \in MainPrices}
Feeds ==
    [fetched : {TRUE}, m15 : Responses, h1 : H1Responses, h4_raw : Responses,
     daily : Responses]
FailedFetch ==
    [fetched |-> FALSE, m15 |-> NoValues, h1 |-> NoValues, h4_raw |-> NoValues,
     daily |-> NoValues]
HfReplies ==
    {[key |-> FALSE, ok |-> TRUE, confidence |-> ACCEPT_MIN],
     [key |-> TRUE, ok |-> TRUE, confidence |-> 90],
     [key |-> TRUE, ok |-> FALSE, confidence |-> 50]}

----------------------------------------------------------------------------
(* The harness: one call of one function *)

NoObservation == [seen |-> FALSE]

Init ==
    /\ fn = "idle"
    /\ args = <<>>
    /\ ret = NoneValue
    /\ signal = NoneValue
    /\ pos = NoneValue
    /\ events = <<>>
    /\ obs = NoObservation

Idle == fn = "idle"

Call(f, a, r) ==
    /\ fn' = f
    /\ args' = a
    /\ ret' = r
    /\ UNCHANGED monitor

Call_generate_trade ==
    /\ Idle
    /\ \E htf \in HtfSeries, ltf \in FlatLtfSeries,
          account_type \in {"personal_10", "phase1"}, sl_pips \in SlPipsInputs,
          tie \in TieRules :
        Call("generate_trade",
             [symbol |-> "XAU/USD", htf_candles |-> htf, ltf_candles |-> ltf,
              account_type |-> account_type, sl_pips |-> sl_pips],
             generate_trade("XAU/USD", htf, ltf, account_type, sl_pips, tie))

Call_identify_directional_bias ==
    /\ Idle
    /\ \E htf \in HtfSeries :
        Call("identify_directional_bias", [htf_candles |-> htf],
             identify_directional_bias(htf))

Call_compute_trend ==
    /\ Idle
    /\ \E candles \in RawSeries :
        Call("compute_trend", [candles |-> candles], compute_trend(candles))

Call_confirm_entry ==
    /\ Idle
    /\ \E ltf \in LtfSeries, poi \in Pois, bias \in {"buy", "sell"} :
        Call("confirm_entry",
             [ltf_candles |-> ltf, poi |-> poi, directional_bias |-> bias],
             confirm_entry(ltf, poi, bias))

Call_confidence_score ==
    /\ Idle
    /\ \E structure_shift \in BOOLEAN, poi \in BOOLEAN, confirmation \in BOOLEAN :
        Call("confidence_score",
             [structure_shift |-> structure_shift, poi |-> poi,
              confirmation |-> confirmation],
             Value(confidence_score(structure_shift, poi, confirmation)))

\* calculate_lot_size on a TradeSetup with these fields
Call_calculate_lot_size ==
    /\ Idle
    /\ \E symbol \in Symbols, account_type \in AccountTypes,
          sl_pips \in LotSlPipsInputs, tie \in TieRules :
        Call("calculate_lot_size",
             [symbol |-> symbol, account_type |-> account_type,
              sl_pips |-> sl_pips],
             calculate_lot_size(symbol, account_type, sl_pips, tie))

Call_compute_lot_table ==
    /\ Idle
    /\ \E sl_distance \in SlDistances, tie \in TieRules :
        Call("compute_lot_table", [sl_distance |-> sl_distance],
             Value(compute_lot_table(sl_distance, "XAU/USD", tie)))

Call_strategy_snapshot ==
    /\ Idle
    /\ \E m15 \in M15Series, h1 \in H1Series, h4 \in H4Inputs,
          daily \in TrendSeries :
        Call("strategy_snapshot",
             [m15 |-> m15, h1 |-> h1, h4 |-> h4, daily |-> daily],
             strategy_snapshot(m15, h1, h4, daily))

Call_main ==
    /\ Idle
    /\ \E twelve_key \in BOOLEAN, hf \in HfReplies :
       \E feed \in IF twelve_key THEN Feeds \cup {FailedFetch} ELSE {FailedFetch} :
        Call("main", [twelve_key |-> twelve_key, feed |-> feed, hf |-> hf],
             main(twelve_key, feed, hf))

Next ==
    \/ Call_generate_trade
    \/ Call_identify_directional_bias
    \/ Call_compute_trend
    \/ Call_confirm_entry
    \/ Call_confidence_score
    \/ Call_calculate_lot_size
    \/ Call_compute_lot_table
    \/ Call_strategy_snapshot
    \/ Call_main

Spec == Init /\ [][Next]_vars

----------------------------------------------------------------------------
(* The position lifecycle monitor (spec sections 3 and 4.9).  Comparisons  *)
(* are written for a long position and mirrored for a short one.           *)

OpenStates == {"New", "BreakevenArmed", "PartialTaken", "Trailing", "Target2Hit"}
ClosedStates == {"Target3Hit", "StopHit", "Reversed"}

EventKinds ==
    {"breakeven_arm", "partial_take", "trail_activate", "target_2",
     "final_target_close", "stop_hit_close", "reversal_exit"}

\* the PositionState of a signal accepted for live tracking
NewPosition ==
    [state |-> "New", status |-> "Open", flags |-> [e \in EventKinds |-> FALSE]]

IsLong(sig) == Lower(sig.direction) = "buy"

\* price has reached level / 2 in the direction of the trade
Reached2(sig, price, level2) ==
    IF IsLong(sig) THEN 2 * price >= level2 ELSE 2 * price <= level2
\* price is at level or beyond it against the trade
Against(sig, price, level) ==
    IF IsLong(sig) THEN price <= level ELSE price >= level

StopTrigger(sig, price) == Against(sig, price, sig.sl)

\* the rows of the transition table other than the stop, in its order
Rows ==
    <<[event |-> "breakeven_arm", from |-> {"New"}, to |-> "BreakevenArmed"],
      [event |-> "partial_take", from |-> {"New", "BreakevenArmed"},
       to |-> "PartialTaken"],
      [event |-> "trail_activate", from |-> {"PartialTaken"}, to |-> "Trailing"],
      [event |-> "target_2", from |-> {"PartialTaken", "Trailing"},
       to |-> "Target2Hit"],
      [event |-> "final_target_close", from |-> OpenStates, to |-> "Target3Hit"],
      [event |-> "reversal_exit", from |-> {"PartialTaken", "Trailing"},
       to |-> "Reversed"]>>

RowTrigger(event, sig, price) ==
    CASE event = "breakeven_arm" ->
            Reached2(sig, price, sig.entry + sig.tp_levels[1])
      [] event = "partial_take" -> Reached2(sig, price, 2 * sig.tp_levels[1])
      [] event = "trail_activate" ->
            Reached2(sig, price, sig.tp_levels[1] + sig.tp_levels[2])
      [] event = "target_2" -> Reached2(sig, price, 2 * sig.tp_levels[2])
      [] event = "final_target_close" ->
            Reached2(sig, price, 2 * sig.tp_levels[3])
      [] event = "reversal_exit" -> Against(sig, price, sig.entry)

\* a row that fires on every observation past its threshold
RowFiresUnguarded(row, p, sig, price) ==
    p.status = "Open" /\ RowTrigger(row.event, sig, price)

\* read-then-conditionally-write: a row fires from its states, on its trigger,
\* and only with its flag unset
RowFires(row, p, sig, price) ==
    /\ p.state \in row.from
    /\ ~p.flags[row.event]
    /\ RowTrigger(row.event, sig, price)

Transition(p, event, to) ==
    [state |-> to,
     status |-> IF to \in ClosedStates THEN "Closed" ELSE "Open",
     flags |-> [p.flags EXCEPT ![event] = TRUE]]

\* rows i.. of the table applied in order to the result so far
RECURSIVE ApplyRows(_, _, _, _)
ApplyRows(acc, sig, price, i) ==
    IF i > Len(Rows) THEN acc
    ELSE IF RowFires(Rows[i], acc.pos, sig, price)
    THEN ApplyRows([pos |-> Transition(acc.pos, Rows[i].event, Rows[i].to),
                    emitted |-> Append(acc.emitted, Rows[i].event)],
                   sig, price, i + 1)
    ELSE ApplyRows(acc, sig, price, i + 1)

\* the target rows evaluated before the stop
EvaluateTargetsFirst(p, sig, price) ==
    LET acc == ApplyRows([pos |-> p, emitted |-> <<>>], sig, price, 1)
    IN  IF acc.pos.status = "Open" /\ StopTrigger(sig, price)
        THEN [pos |-> Transition(acc.pos, "stop_hit_close", "StopHit"),
              emitted |-> Append(acc.emitted, "stop_hit_close")]
        ELSE acc

\* one observation: a closed position is left alone, the stop goes first
Evaluate(p, sig, price) ==
    IF p.status = "Closed" THEN [pos |-> p, emitted |-> <<>>]
    ELSE IF StopTrigger(sig, price)
    THEN [pos |-> Transition(p, "stop_hit_close", "StopHit"),
          emitted |-> <<"stop_hit_close">>]
    ELSE ApplyRows([pos |-> p, emitted |-> <<>>], sig, price, 1)

\* the signals: what TradeSetup assembles on a POI the way generate_trade
\* calls it
AssembledSignals ==
    {o.value : o \in
        {x \in {TradeSetup("XAU/USD", d, (poi.top + poi.bottom) \div 2,
                           IF d = "buy" THEN poi.bottom ELSE poi.top,
                           rr_ratios, SCORE_CAP, "phase1", n, tie) :
                    d \in {"buy", "sell"}, poi \in Pois, n \in SlPipsInputs,
                    tie \in TieRules} :
            x.kind = "value"}}

\* the observed prices: every level of the signal, and the prices on either
\* side of the two halfway levels
ObsPrices(sig) ==
    {sig.sl, sig.entry, sig.tp_levels[1], sig.tp_levels[2], sig.tp_levels[3]}
        \cup {(sig.entry + sig.tp_levels[1]) \div 2 + d : d \in 0..1}
        \cup {(sig.tp_levels[1] + sig.tp_levels[2]) \div 2 + d : d \in 0..1}

MonitorInit ==
    /\ fn = "idle"
    /\ args = <<>>
    /\ ret = NoneValue
    /\ signal \in AssembledSignals
    /\ pos = NewPosition
    /\ events = <<>>
    /\ obs = NoObservation

Observe ==
    \E price \in ObsPrices(signal) :
        LET r == Evaluate(pos, signal, price)
        IN  /\ pos' = r.pos
            /\ events' = events \o [i \in 1..Len(r.emitted) |->
                                        [kind |-> r.emitted[i], price |-> price]]
            /\ obs' = [seen |-> TRUE, price |-> price, pre |-> pos,
                       emitted |-> r.emitted]
            /\ UNCHANGED <<signal, harness>>

MonitorNext == Observe

MonitorSpec == MonitorInit /\ [][MonitorNext]_vars

----------------------------------------------------------------------------
(* Claims about the signal engine (specification Spec) *)

Abs(x) == IF x < 0 THEN -x ELSE x

\* the tier threshold the gate is to apply
TierThreshold(account_type) ==
    IF account_type = "personal_10" THEN 95 ELSE 85

\* the four gate conditions on the arguments a of generate_trade
BiasNonNeutral(a) == identify_directional_bias(a.htf_candles).kind = "value"

PoiOf(a) ==
    LET det == detect_poi_and_liquidity(a.htf_candles)
    IN  IF det.kind = "raise" THEN NoneValue
        ELSE select_poi(det.value.ob_list, det.value.fvg_list)

Confirmed(a) ==
    /\ BiasNonNeutral(a)
    /\ PoiOf(a).kind = "value"
    /\ confirm_entry(a.ltf_candles, PoiOf(a).value,
                     identify_directional_bias(a.htf_candles).value)
            = Value(TRUE)

ScoreOf(a) ==
    confidence_score(detect_market_structure_shift(a.htf_candles).kind = "value",
                     PoiOf(a).kind = "value", Confirmed(a))

GateOpen(a) ==
    /\ BiasNonNeutral(a)
    /\ PoiOf(a).kind = "value"
    /\ Confirmed(a)
    /\ ScoreOf(a) >= TierThreshold(a.account_type)

\* C1: generate_trade returns a trade only when the bias is non-neutral, a POI
\* was located, confirm_entry returned true and the score is at least the tier
\* threshold (95 for personal_10, 85 otherwise), and returns None in every
\* other case.
C1_GateDecides ==
    fn = "generate_trade" =>
        /\ ret.kind = "value" => GateOpen(args)
        /\ ~GateOpen(args) => ret.kind = "none"

\* the half of C1 the code keeps: a trade is returned only with the gate open
TradeOnlyThroughGate ==
    fn = "generate_trade" /\ ret.kind = "value" => GateOpen(args)

Increasing(q) == \A i \in 1..(Len(q) - 1) : q[i] < q[i + 1]
Reverse(q) == [i \in 1..Len(q) |-> q[Len(q) + 1 - i]]

\* stop, entry and the targets in the order the direction asks for
Ordered(t) ==
    LET ladder == <<t.sl, t.entry>> \o t.tp_levels
    IN  IF Lower(t.direction) = "buy" THEN Increasing(ladder)
                                      ELSE Increasing(Reverse(ladder))

\* C2: every trade generate_trade assembles has sl < entry < tp1 < tp2 < tp3
\* for buy and the reverse for sell; an input that would break the order (a
\* POI candle with high = low, sl_pips <= 0) yields no trade.
C2_TradeOrdered ==
    fn = "generate_trade" /\ ret.kind = "value" => Ordered(ret.value)

\* the candles identify_directional_bias reads: the last two
BIAS_LOOK_BACK == 2

\* C3: on a series shorter than its look-back (the empty and the one-candle
\* series included) the bias detector returns its neutral value (None in
\* identify_directional_bias, 0 in compute_trend) and never raises, so
\* generate_trade yields no signal rather than an error.
C3_ShortSeriesNeutral ==
    /\ fn = "identify_directional_bias"
            /\ Len(args.htf_candles) < BIAS_LOOK_BACK
        => ret = NoneValue
    /\ fn = "compute_trend" /\ Len(args.candles) < TREND_MIN_LEN
        => ret = Value([num |-> 0, den |-> 1])
    /\ fn = "generate_trade" /\ Len(args.htf_candles) < BIAS_LOOK_BACK
        => ret = NoneValue

\* the half of C3 the code keeps: compute_trend is 0 on fewer than five candles
ShortTrendIsZero ==
    fn = "compute_trend" /\ Len(args.candles) < TREND_MIN_LEN
        => ret = Value([num |-> 0, den |-> 1])

\* an outcome that rejects the input: an exception other than the division's
\* own and the dict's own
Rejected(o) ==
    o.kind = "raise" /\ o.exc \notin {"ZeroDivisionError", "KeyError"}

\* C4: a zero or negative stop distance is rejected as invalid input:
\* calculate_lot_size on sl_pips <= 0 and compute_lot_table on
\* sl_distance <= 0 fail validation, with no division by zero and no silently
\* coerced lot size.
C4_NonPositiveStopRejected ==
    /\ fn = "calculate_lot_size" /\ args.sl_pips <= 0 => Rejected(ret)
    /\ fn = "compute_lot_table" /\ args.sl_distance <= 0 => Rejected(ret)

\* the weights confidence_score adds
Weights == <<W_SHIFT, W_POI, W_CONFIRM>>

\* the inputs of a confidence_score call, and the inputs with one more set
ScoreInputs(a) == <<a.structure_shift, a.poi, a.confirmation>>
Raised(a) ==
    {[a EXCEPT !.structure_shift = TRUE], [a EXCEPT !.poi = TRUE],
     [a EXCEPT !.confirmation = TRUE]}

\* C7: for every combination of inputs confidence_score is an integer in
\* 0..100, the capped sum of fixed non-negative weights that add up to at most
\* 100, and setting one input from false to true never lowers it.
C7_ScoreBoundedMonotone ==
    fn = "confidence_score" =>
        /\ ret.value \in 0..100
        /\ \A i \in 1..3 : Weights[i] >= 0
        /\ Weights[1] + Weights[2] + Weights[3] <= 100
        /\ ret.value =
              (IF args.structure_shift THEN Weights[1] ELSE 0)
              + (IF args.poi THEN Weights[2] ELSE 0)
              + (IF args.confirmation THEN Weights[3] ELSE 0)
        /\ \A b \in Raised(args) :
              confidence_score(b.structure_shift, b.poi, b.confirmation)
                  >= ret.value

C7_Witness ==
    /\ fn = "confidence_score"
    /\ args.structure_shift /\ args.poi /\ ~args.confirmation
    /\ ret.value = 70

\* the lot sizes a later call can return for the doubled quantity
LotSizes(pct100, balance, sl_pips, pip) ==
    {lot_size_of(pct100, balance, sl_pips, pip, tie) : tie \in TieRules}
LotTables(sl_distance) ==
    {compute_lot_table(sl_distance, "XAU/USD", tie) : tie \in TieRules}

LotCells == {"lot_min", "lot_max"}

\* a calculate_lot_size call the claim is about, and a compute_lot_table call
SizedCall ==
    /\ fn = "calculate_lot_size"
    /\ args.sl_pips > 0
    /\ ret.kind = "value"
TableCall == fn = "compute_lot_table" /\ args.sl_distance > 0

\* C8 as it stands: with the rest fixed, doubling the balance doubles the lot
\* size and doubling the stop distance halves it, in calculate_lot_size over
\* positive sl_pips and in compute_lot_table over its account sizes and any
\* positive sl_distance.
C8_ExactDoubling ==
    /\ SizedCall =>
        LET pct == account_risk_percent[args.account_type]
            bal == get_account_balance(args.account_type)
            pip == pip_value_usd(args.symbol)
        IN  /\ \E v \in LotSizes(pct, 2 * bal, args.sl_pips, pip) :
                    v = 2 * ret.value
            /\ \E v \in LotSizes(pct, bal, 2 * args.sl_pips, pip) :
                    2 * v = ret.value
    /\ TableCall =>
        \A p \in DOMAIN phases, k \in LotCells :
            /\ \A bal \in accounts : 2 * bal \in accounts =>
                    ret.value[2 * bal][p][k] = 2 * ret.value[bal][p][k]
            /\ \A bal \in accounts :
                    \E t \in LotTables(2 * args.sl_distance) :
                        2 * t[bal][p][k] = ret.value[bal][p][k]

\* C8 amended: the sizer is monotonic and doubles or halves to within one unit
\* of the digit round() keeps: doubling the balance never lowers the lot size
\* and gives twice the lot size to within one unit; doubling the stop
\* distance never raises it and, where the distance is a whole number of pips
\* (sl_pips of calculate_lot_size; an sl_distance that is a positive multiple
\* of 0.01 in compute_lot_table), gives half of it to within half a unit.
C8_DoublingToRounding ==
    /\ SizedCall =>
        LET pct == account_risk_percent[args.account_type]
            bal == get_account_balance(args.account_type)
            pip == pip_value_usd(args.symbol)
        IN  /\ \A v \in LotSizes(pct, 2 * bal, args.sl_pips, pip) :
                    v >= ret.value /\ Abs(v - 2 * ret.value) <= 1
            /\ \A v \in LotSizes(pct, bal, 2 * args.sl_pips, pip) :
                    v <= ret.value /\ Abs(2 * v - ret.value) <= 1
    /\ TableCall =>
        \A p \in DOMAIN phases, k \in LotCells :
            /\ \A bal \in accounts : 2 * bal \in accounts =>
                    /\ ret.value[2 * bal][p][k] >= ret.value[bal][p][k]
                    /\ Abs(ret.value[2 * bal][p][k] - 2 * ret.value[bal][p][k])
                            <= 1
            /\ \A bal \in accounts :
                    \A t \in LotTables(2 * args.sl_distance) :
                        /\ t[bal][p][k] <= ret.value[bal][p][k]
                        /\ args.sl_distance % 2 = 0 =>
                                Abs(2 * t[bal][p][k] - ret.value[bal][p][k]) <= 1

\* a stop of 3 pips, where the lot sizes 0.167 and 0.083 are not one twice the
\* other, and the table of a 3-pip stop
C8_Witness ==
    \/ /\ SizedCall
       /\ args = [symbol |-> "XAU/USD", account_type |-> "personal_10",
                  sl_pips |-> 3]
       /\ ret.value = 167
    \/ /\ TableCall
       /\ args.sl_distance = 6
       /\ ret.value[5000]["Phase1"].lot_max = 333333

\* the rule of the claim: the last candle's wick reaches into the POI band
\* from the side the trade enters on, and its close is back outside on that side
Intrudes(candle, poi, bias) ==
    IF bias = "buy" THEN candle.low <= poi.top ELSE candle.high >= poi.bottom
ClosesOutside(candle, poi, bias) ==
    IF bias = "buy" THEN candle.close > poi.top ELSE candle.close < poi.bottom

\* C9: confirm_entry returns true only when the most recent lower-timeframe
\* candle intrudes into the POI band in the bias direction and closes back
\* outside the POI in the direction of the trade; a candle that does not
\* intrude, or intrudes without the rejection close, yields false.
C9_ConfirmIsRejection ==
    fn = "confirm_entry" /\ Len(args.ltf_candles) > 0 =>
        LET candle == Last(args.ltf_candles)
            rejection ==
                /\ Intrudes(candle, args.poi, args.directional_bias)
                /\ ClosesOutside(candle, args.poi, args.directional_bias)
        IN  /\ ret = Value(TRUE) => rejection
            /\ ~rejection => ret = Value(FALSE)

\* what confirm_entry does test: the wick reaches the far boundary of the POI
ConfirmIsFarTouch ==
    fn = "confirm_entry" /\ Len(args.ltf_candles) > 0 =>
        LET candle == Last(args.ltf_candles)
        IN  ret = Value(IF args.directional_bias = "buy"
                        THEN candle.low <= args.poi.bottom
                        ELSE candle.high >= args.poi.top)

\* the POI candidates of a generate_trade call, in priority order (no
\* breaker block is ever detected)
Candidates(a) ==
    LET det == detect_poi_and_liquidity(a.htf_candles)
    IN  IF det.kind = "raise" THEN <<<<>>, <<>>, <<>>>>
        ELSE <<det.value.ob_list, <<>>, det.value.fvg_list>>

\* the POI a trade was built on
PoiOfTrade(t) ==
    IF t.direction = "buy"
    THEN [top |-> 2 * t.entry - t.sl, bottom |-> t.sl]
    ELSE [top |-> t.sl, bottom |-> 2 * t.entry - t.sl]

SnapshotSignal == fn = "strategy_snapshot" /\ ret.kind = "value"
DailyTrendOf(a) == compute_trend(a.daily).value
H4TrendOf(a) ==
    IF a.h4.kind = "list" THEN compute_trend(a.h4.list).value
    ELSE [num |-> 0, den |-> 1]

\* the signal's direction agrees with both trends
SignalAligned ==
    SnapshotSignal =>
        /\ ret.value.direction \in {"BUY", "SELL"}
        /\ ret.value.direction = "BUY" =>
                /\ trend_positive(DailyTrendOf(args))
                /\ trend_positive(H4TrendOf(args))
        /\ ret.value.direction = "SELL" =>
                /\ trend_negative(DailyTrendOf(args))
                /\ trend_negative(H4TrendOf(args))

\* stop, entry and the three targets of a signal, in the order of the trade
SignalLevels(sg) == <<sg.stop, sg.entry, sg.tps[1], sg.tps[2], sg.tps[3]>>
SignalOrdered(sg) ==
    IF sg.direction = "BUY" THEN Increasing(SignalLevels(sg))
    ELSE Increasing(Reverse(SignalLevels(sg)))

\* C11: strategy_snapshot returns a BUY signal only when the daily and the H4
\* trend are both strictly positive, a SELL signal only when both are
\* strictly negative, never both, and every returned signal has
\* stop < entry < tps[0] < tps[1] < tps[2] for BUY (reversed for SELL).
C11_AlignedAndOrdered ==
    /\ SignalAligned
    /\ SnapshotSignal => SignalOrdered(ret.value)

\* on candles with low <= high every returned signal is ordered
OrderedOnWellFormedCandles ==
    SnapshotSignal
        /\ (\A i \in 1..Len(args.m15) :
                parse_candle(args.m15[i]).value.low
                    <= parse_candle(args.m15[i]).value.high)
        => SignalOrdered(ret.value)

\* the close and the high of a raw candle that parses
CloseOf(c) == parse_candle(c).value.close
HighOf(c) == parse_candle(c).value.high

\* the fetched data of the claim: a non-empty H4 series whose newest close is
\* above its oldest, at least five daily candles with the newest close above
\* the oldest, and a latest M15 close above the highs of the four M15
\* candles before it and below 1.002 times the latest H4 high
BuyData(feed) ==
    /\ feed.fetched
    /\ feed.m15.has_values /\ feed.h1.has_values
    /\ feed.h4_raw.has_values /\ feed.daily.has_values
    /\ parse_all(feed.h1.values).kind = "value"
    /\ LET m15 == feed.m15.values
           h4 == feed.h4_raw.values
           daily == feed.daily.values
       IN  /\ Len(h4) > 0
           /\ CloseOf(h4[1]) > CloseOf(Last(h4))
           /\ Len(daily) >= TREND_MIN_LEN
           /\ CloseOf(daily[1]) > CloseOf(Last(daily))
           /\ Len(m15) >= 5
           /\ \A i \in 2..5 : CloseOf(m15[1]) > HighOf(m15[i])
           /\ 1000 * CloseOf(m15[1]) < 1002 * HighOf(h4[1])

\* C12: the accept path of main is reachable: on such data main obtains a BUY
\* signal from strategy_snapshot and, with no HF key configured, calls
\* send_telegram and then append_log.
C12_AcceptReachable ==
    fn = "main" /\ args.twelve_key /\ BuyData(args.feed) =>
        /\ ret.signal.kind = "value"
        /\ ret.signal.value.direction = "BUY"
        /\ ~args.hf.key => ret.calls = <<"send_telegram", "append_log">>

\* what main does on every input: it gets no signal and makes neither call
MainNeverAccepts ==
    fn = "main" => ret.signal.kind # "value" /\ ret.calls = <<>>

----------------------------------------------------------------------------
(* Claims about the position lifecycle monitor (specification MonitorSpec) *)

Range(q) == {q[i] : i \in 1..Len(q)}

\* C5: for any sequence of price observations on one position, repeated and
\* duplicate prices included, each lifecycle event is emitted at most once:
\* an observation never re-emits an event whose flag is already set.
C5_EventsAtMostOnce ==
    /\ \A i, j \in 1..Len(events) : i # j => events[i].kind # events[j].kind
    /\ \A e \in EventKinds :
            pos.flags[e] <=> \E i \in 1..Len(events) : events[i].kind = e
    /\ obs.seen => \A e \in Range(obs.emitted) : ~obs.pre.flags[e]

\* the whole ladder was emitted over several observations, and a duplicate of
\* the price that emitted the last event emitted nothing
C5_Witness ==
    /\ Len(events) = 5
    /\ events[1].price # events[5].price
    /\ [i \in 1..Len(events) |-> events[i].kind]
            = <<"breakeven_arm", "partial_take", "trail_activate", "target_2",
                "final_target_close">>
    /\ obs.seen
    /\ obs.price = Last(events).price
    /\ obs.emitted = <<>>

\* price meets the threshold of a target row of the table
TargetTrigger(sig, price) ==
    \E e \in {"breakeven_arm", "partial_take", "trail_activate", "target_2",
               "final_target_close"} : RowTrigger(e, sig, price)

\* C6: an observation on an open position that meets the stop threshold and a
\* target threshold at once closes the position with StopHit and emits no
\* target event; once the position is Closed every later observation changes
\* no state and emits no event.
C6_StopFirstClosedTerminal ==
    obs.seen =>
        /\ obs.pre.status = "Open" /\ StopTrigger(signal, obs.price)
                /\ TargetTrigger(signal, obs.price)
            => /\ pos.state = "StopHit"
               /\ pos.status = "Closed"
               /\ obs.emitted = <<"stop_hit_close">>
        /\ obs.pre.status = "Closed"
            => /\ pos = obs.pre
               /\ obs.emitted = <<>>

\* the same as a step: a step from a Closed position changes neither the
\* position nor the log of events
ClosedIsTerminal ==
    [][pos.status = "Closed" => pos' = pos /\ events' = events]_vars

\* the stop closed the position at a price that met a target threshold too,
\* and a later observation found it closed
C6_Witness ==
    /\ pos.state = "StopHit"
    /\ Len(events) = 1
    /\ events[1].kind = "stop_hit_close"
    /\ TargetTrigger(signal, events[1].price)
    /\ obs.seen
    /\ obs.pre.status = "Closed"

====
